---- MODULE Spec2Model ----
(***************************************************************************)
(* Model of the particle morph application: App (gesture slot, shape and   *)
(* colour state), ParticleSystem (target/current/velocity buffers, the     *)
(* per-frame integration loop, visual easing), HandController (video       *)
(* frames -> HandData snapshots) and geometryService (shape sampler).      *)
(*                                                                         *)
(* Numbers.  Every JavaScript number is a fixed-point integer.  The        *)
(* elements of the four Float32Array buffers and the random jitter are     *)
(* millionths (about the precision of a 32-bit float at these sizes);      *)
(* every other number (HandData fields, factors, angles, material fields)  *)
(* is in thousandths, Unit = 1.0.  Each product is rounded to the nearest  *)
(* integer of its scale, as each floating-point operation rounds.          *)
(***************************************************************************)
EXTENDS Integers, Sequences, FiniteSets, TLC

\* ------------------------------------------------------------------ bounds
\* number of particles of the model (the source uses 15000)
PARTICLE_COUNT == 2
\* frames the render clock may count in Spec, SpecCore and SpecVisual
MaxTime == 2
\* video frames the camera delivers at most
MaxVideoTime == 1
\* milliseconds of clock time between two rendered frames (about 60 Hz)
FrameMs == 17
\* SpecReturn: frames that may pass before the calm gesture is published
MaxDisturb == 1
\* SpecReturn: calm frames after which the position must have settled
ConvergeTicks == 140
\* SpecReturn: the settled band around the scaled target, in millionths
Epsilon == 10000

\* ------------------------------------------------------------- arithmetic
Unit == 10 ^ 3

Abs(x) == IF x < 0 THEN -x ELSE x

\* n / d rounded to the nearest integer, halves away from zero (d > 0)
RoundDiv(n, d) ==
    IF n >= 0 THEN (2 * n + d) \div (2 * d)
              ELSE -((2 * (-n) + d) \div (2 * d))

\* largest r in lo..hi with r * r <= n, by bisection
RECURSIVE Root(_, _, _)
Root(n, lo, hi) ==
    IF lo = hi THEN lo
    ELSE LET mid == (lo + hi + 1) \div 2
         IN  IF mid * mid <= n THEN Root(n, mid, hi) ELSE Root(n, lo, mid - 1)

\* Math.sqrt of n / Unit^2, in thousandths, rounded to nearest (n < 16 Unit^2)
Sqrt(n) ==
    LET f == Root(n, 0, 4 * Unit)
    IN  IF n - f * f > f THEN f + 1 ELSE f

\* Math.sin of x thousandths of a radian, in thousandths: the series
\* x - x^3/3! + x^5/5! - x^7/7!, evaluated in stages (0 <= x <= 2 * Unit)
Sin(x) ==
    LET x2 == RoundDiv(x * x, Unit)
        x4 == RoundDiv(x2 * x2, Unit)
        x6 == RoundDiv(x4 * x2, Unit)
    IN  x - RoundDiv(x2 * x, 6 * Unit) + RoundDiv(x4 * x, 120 * Unit)
          - RoundDiv(x6 * x, 5040 * Unit)

\* x * f for a factor f >= 0 in thousandths, rounded to nearest, without
\* an intermediate product beyond 32 bits
RECURSIVE Scale(_, _)
Scale(x, f) ==
    IF x < 0 THEN -Scale(-x, f)
    ELSE (x \div Unit) * f + RoundDiv((x % Unit) * f, Unit)

\* THREE.MathUtils.lerp(x, y, t) = (1 - t) * x + t * y
MathLerp(x, y, t) == RoundDiv((Unit - t) * x + t * y, Unit)

\* THREE.Color.lerp, one channel: c += (target - c) * alpha
ChannelLerp(c, target, alpha) == c + RoundDiv((target - c) * alpha, Unit)

Min(a, b) == IF a < b THEN a ELSE b
\* a maximum that forgets its lower bound
MaxFirst(a, b) == a
Max(a, b) == IF a > b THEN a ELSE b

\* ------------------------------------------------------------ types.ts
SPHERE == "Sphere"
CUBE == "Cube"
HEART == "Heart"
SPIRAL == "Spiral"
SATURN == "Saturn"
CLOUD == "Cloud"
ShapeType == {SPHERE, CUBE, HEART, SPIRAL, SATURN, CLOUD}

\* the shapes the model's user picks in the shape control
ShapeChoices == {SPHERE, CLOUD}

\* a value outside the enumeration, as an untyped caller can pass it
UnknownKinds == {"Torus"}

\* the targetShape props the model passes to the particle system alone
PropShapes == {SPHERE, SATURN} \cup UnknownKinds

\* indices of a flat buffer of PARTICLE_COUNT * 3 numbers (1-based here)
BufIdx == 1..(PARTICLE_COUNT * 3)
Particles == 0..(PARTICLE_COUNT - 1)
\* buffer index of axis ax (0..2) of particle i: the source's i3 + ax
I3(i, ax) == i * 3 + ax + 1

ZeroBuffer == [k \in BufIdx |-> 0]

\* ------------------------------------------------- geometryService (sampler)
\* Points (x, y, z) the randomized sampler can return for each shape, in
\* millionths, radius = 4.  Sphere: inside the ball of radius 4.
SpherePoints == << <<46790, -46790, 46790>>, <<-46790, 46790, -46790>> >>
\* Cube: each axis in [-3, 3]
CubePoints == << <<3000000, -3000000, 1500000>>, <<-1000000, 2000000, -3000000>> >>
\* Heart: (16 sin^3 t, 13 cos t - ..., z) * r * 0.2
HeartPoints == << <<3200000, 800000, 200000>>, <<-3200000, 800000, -400000>> >>
\* Spiral: (r cos 2t, (t - 10) / 2, r sin 2t) plus noise
SpiralPoints == << <<600000, -5000000, -100000>>, <<1000000, 0, 2300000>> >>
\* Saturn planet: inside the ball of radius 2.4
PlanetPoints == << <<2400000, 0, 0>>, <<0, 1200000, -1200000>> >>
\* Saturn ring: distance 3.2 .. 5.6 from the axis, nearly flat, tilted
RingPoints == << <<4000000, 900000, 500000>>, <<-3500000, -1200000, 300000>> >>
\* Cloud: spherical point of radius 2 .. 6 times a random scalar
CloudPoints == << <<5000000, 1000000, -2000000>>, <<100000, -200000, 300000>> >>

\* the point the sampler draws for particle i of a shape; s tells the
\* outcomes of the random draws apart
SamplePoint(type, i, s) ==
    LET pick(pts, shift) == pts[((i + shift) % Len(pts)) + 1]
    IN  CASE type = SPHERE -> pick(SpherePoints, 0)
          [] type = CUBE   -> pick(CubePoints, 0)
          [] type = HEART  -> pick(HeartPoints, 0)
          [] type = SPIRAL -> pick(SpiralPoints, 0)
          [] type = SATURN -> IF 10 * i < PARTICLE_COUNT * 7
                                 THEN pick(PlanetPoints, 0)
                                 ELSE pick(RingPoints, 0)
          [] OTHER         -> pick(CloudPoints, s)   \* case CLOUD: default:

\* outcomes of the sampler's random draws that the model enumerates: two
\* for the cloud, one for each other shape
Draws == {0, 1}

\* generateShapePositions(type): the buffers it can return
generateShapePositions(type) ==
    { [k \in BufIdx |-> SamplePoint(type, (k - 1) \div 3, s)[((k - 1) % 3) + 1]]
        : s \in Draws }

\* --------------------------------------------------------------- HandData
\* handDataRef's initial value (App)
DefaultHandData ==
    [isTracking |-> FALSE, distance |-> 500, isFist |-> FALSE,
     center |-> <<500, 500>>, rotation |-> <<0, 0>>]

\* HandData values an arbitrary owner of the handData ref can store in it:
\* the type constrains no field by another
HandValue(isTracking, distance, isFist) ==
    [isTracking |-> isTracking, distance |-> distance, isFist |-> isFist,
     center |-> <<300, 700>>, rotation |-> <<400, -600>>]
HandDataValues ==
    { HandValue(FALSE, 900, FALSE), HandValue(FALSE, 500, TRUE),
      HandValue(TRUE, 500, FALSE), HandValue(TRUE, 900, TRUE) }

\* snapshots that hold the scaled target still: tracking, no fist, no burst
CalmHandData == { HandValue(TRUE, 0, FALSE), HandValue(TRUE, 500, FALSE) }

\* snapshots that push the particles off the shape: a burst, a fist
DisturbHandData == { HandValue(TRUE, 900, FALSE), HandValue(TRUE, 500, TRUE) }

\* ------------------------------------------------------------------ state
VARIABLES
    targetShape,     \* App: useState targetShape (prop of ParticleSystem)
    color,           \* App: useState color (prop baseColor)
    handData,        \* App: handDataRef.current, the gesture slot
    mounted,         \* ParticleSystem: first commit and its effects are done
    targets,         \* targetPositionsRef.current
    current,         \* currentPositionsRef.current
    velocities,      \* velocitiesRef.current
    positions,       \* geometry attribute "position" (render buffer)
    material,        \* pointsMaterial: color, opacity, size
    rotation,        \* pointsRef.current.rotation (x, y)
    time,            \* frames rendered: the clock read by useFrame
    camera,          \* HandController: "off", "live" or "lost"
    videoTime,       \* video.currentTime, counted in video frames
    lastVideoTime,   \* predict(): lastVideoTime
    frame,           \* what the last useFrame call read and decided
    sampled,         \* what the last generateShapePositions call returned
    published,       \* the argument of the last onUpdate call, << >> before it
    detected,        \* results.landmarks.length of the last detection
    calmRun          \* consecutive frames without burst or fist force whose
                     \* targets and expansion factor were those of the frame before

appVars == <<targetShape, color, handData>>
bufVars == <<targets, current, velocities, positions>>
psVars == <<mounted, material, rotation, time>>
hcVars == <<camera, videoTime, lastVideoTime>>
obsVars == <<frame, sampled, published, detected, calmRun>>
vars == <<appVars, bufVars, psVars, hcVars, obsVars>>

\* colours the colour picker offers in the model, as THREE.Color reads them
White == <<Unit, Unit, Unit>>
BaseColors == {"#00ffff", "#ff0000"}
Color(hex) == IF hex = "#00ffff" THEN <<0, Unit, Unit>> ELSE <<Unit, 0, 0>>

NoFrame ==
    [hand |-> DefaultHandData, isBurst |-> FALSE, fist |-> FALSE,
     expansionFactor |-> 0, returnForce |-> 0, breathing |-> FALSE]

Init ==
    /\ targetShape = SPHERE
    /\ color = "#00ffff"
    /\ handData = DefaultHandData
    /\ mounted = FALSE
    /\ targets = ZeroBuffer
    /\ current = ZeroBuffer
    /\ velocities = ZeroBuffer
    /\ positions = ZeroBuffer
    /\ material = [color |-> White, opacity |-> 800, size |-> 150]
    /\ rotation = <<0, 0>>
    /\ time = 0
    /\ camera = "off"
    /\ videoTime = 0
    /\ lastVideoTime = -1
    /\ frame = NoFrame
    /\ sampled = ZeroBuffer
    /\ published = << >>
    /\ detected = 0
    /\ calmRun = 0

\* ------------------------------------------- ParticleSystem: the effects
\* the "first load" test with its comparison inverted
FirstLoadInverted(cur) == \A k \in BufIdx : cur[k] # 0

\* currentPositionsRef.current.every(v => v === 0): the "first load" test
FirstLoad(cur) == \A k \in BufIdx : cur[k] = 0

\* a copy that stops after the first particle
SetBufferPartial(old, newPositions) ==
    [k \in BufIdx |-> IF k <= 3 THEN newPositions[k] ELSE old[k]]

\* targetPositionsRef.current.set(newPositions)
SetBuffer(old, newPositions) == [k \in BufIdx |-> newPositions[k]]

\* body of useEffect([targetShape]) with the sampler's result
ShapeEffectBody(newPositions) ==
    /\ targets' = SetBuffer(targets, newPositions)
    /\ current' = IF FirstLoad(current)
                     THEN SetBuffer(current, newPositions)
                     ELSE current
    /\ sampled' = newPositions
    /\ calmRun' = 0

\* materialRef.current.color.set(baseColor)
ColorSet(mat, hex) == [mat EXCEPT !.color = Color(hex)]

\* body of useEffect([baseColor])
ColorEffectBody(baseColor) ==
    /\ material' = ColorSet(material, baseColor)

\* first commit: refs are attached and both effects run, in source order
MountEffects ==
    /\ ~mounted
    /\ mounted' = TRUE
    /\ \E newPositions \in generateShapePositions(targetShape) :
          ShapeEffectBody(newPositions)
    /\ ColorEffectBody(color)
    /\ UNCHANGED <<appVars, velocities, positions, rotation, time, hcVars,
                   frame, published, detected>>

\* ------------------------------------------------------- App: the controls
\* Shape control: onChange -> setTargetShape(val); the re-render it causes
\* runs useEffect([targetShape]).  Nothing but that effect reads
\* targetShape, so the state update and the effect are one step.
SetTargetShape(val) ==
    /\ mounted
    /\ val # targetShape
    /\ targetShape' = val
    /\ \E newPositions \in generateShapePositions(val) :
          ShapeEffectBody(newPositions)
    /\ UNCHANGED <<color, handData, velocities, positions, mounted, material,
                   rotation, time, hcVars, frame, published, detected>>

\* Colour control: onChange -> setColor(val); the re-render it causes runs
\* useEffect([baseColor]).
SetColor(val) ==
    /\ mounted
    /\ val # color
    /\ color' = val
    /\ ColorEffectBody(val)
    /\ UNCHANGED <<targetShape, handData, bufVars, mounted, rotation, time,
                   hcVars, obsVars>>

\* an update that keeps the old snapshot when the new one is not tracking
handleHandUpdateTracked(data) == IF data.isTracking THEN data ELSE handData

\* handleHandUpdate(data): handDataRef.current = data
handleHandUpdate(data) == data

\* ------------------------------------------- ParticleSystem: useFrame
\* no damping, and an easing factor that jumps to the steady value
undamped == Unit
visualSnap == Unit

burstThreshold == 850
returnForceBase == 30
damping == 900
fistPull == 50
handEase == 100
tiltDecay == 50
autoSpin == 1
visualEase == 100
steadyOpacity == 800
steadySize == 150
burstOpacity == 900
burstSize == 200
breathAmplitude == 100
expansionBase == 500
expansionGain == 1500

\* (Math.random() - 0.5) * 0.1 for the three axes of one particle: the
\* values the model draws
JitterDraws == {<<-50000, 50000, -50000>>, <<50000, -50000, 50000>>}
\* 0.02 + Math.random() * 0.01 for one particle: the values the model draws
BurstDraws == {20, 29}

\* the outcomes of one frame's draws that the model enumerates: particles
\* of even and of odd index draw different values, either way round
Alternate(a, b) == [i \in Particles |-> IF i % 2 = 0 THEN a ELSE b]
JitterOutcomes == { Alternate(a, b) : a, b \in JitterDraws } \ { Alternate(a, a) : a \in JitterDraws }
BurstOutcomes == { Alternate(a, b) : a, b \in BurstDraws } \ { Alternate(a, a) : a \in BurstDraws }
NoJitter == [i \in Particles |-> <<0, 0, 0>>]
NoForce == [i \in Particles |-> 0]

\* const isBurst = distance > 0.85
isBurst(hd) == hd.distance > burstThreshold

\* if (isFist): the gate of the fist force
fistGate(hd) == hd.isFist

\* Math.sin(time * 0.5) * 0.1 + 1 at frame t of the clock
breathing(t) ==
    Unit + RoundDiv(Sin(RoundDiv(t * FrameMs, 2)) * breathAmplitude, Unit)

\* isTracking && !isBurst ? 0.5 + distance * 1.5 : breathing
expansionFactor(hd, t) ==
    IF hd.isTracking /\ ~isBurst(hd)
       THEN expansionBase + RoundDiv(hd.distance * expansionGain, Unit)
       ELSE breathing(t)

\* let returnForce = 0.03; if (isBurst) returnForce = 0
returnForce(hd) == IF isBurst(hd) THEN 0 ELSE returnForceBase

\* rotation control
Rotate(rot, hd) ==
    IF hd.isTracking
       THEN <<MathLerp(rot[1], hd.rotation[1], handEase),
              MathLerp(rot[2], hd.rotation[2], handEase)>>
       ELSE <<MathLerp(rot[1], 0, tiltDecay), rot[2] + autoSpin>>

\* the return of colour, opacity and size to their steady values
VisualReturn(mat, hex) ==
    [color |-> [c \in 1..3 |-> ChannelLerp(mat.color[c], Color(hex)[c], visualEase)],
     opacity |-> MathLerp(mat.opacity, steadyOpacity, visualEase),
     size |-> MathLerp(mat.size, steadySize, visualEase)]

\* visual flair for burst
Flair(mat, hd, hex) ==
    IF isBurst(hd)
       THEN [color |-> White, opacity |-> burstOpacity, size |-> burstSize]
       ELSE VisualReturn(mat, hex)

\* acceleration of buffer entry k, in millionths
Accel(k, hd, e, jit, frc) ==
    LET i == (k - 1) \div 3
        ax == (k - 1) % 3
        ret == Scale(Scale(targets[k], e) - current[k], returnForce(hd))
        fst == IF fistGate(hd)
                  THEN jit[i][ax + 1] - Scale(current[k], fistPull)
                  ELSE 0
        bst == IF isBurst(hd) THEN Scale(current[k], frc[i]) ELSE 0
    IN  ret + fst + bst

\* the damping applied before the acceleration is added
NextVelocityDampFirst(k, hd, e, jit, frc) ==
    Scale(velocities[k], damping) + Accel(k, hd, e, jit, frc)

\* velocities[k] += a; velocities[k] *= damping
NextVelocity(k, hd, e, jit, frc) ==
    Scale(velocities[k] + Accel(k, hd, e, jit, frc), damping)

\* the useFrame callback, one frame, with the random draws of its loop
TickStep(jit, frc) ==
    LET hd == handData
        e == expansionFactor(hd, time)
        v == [k \in BufIdx |-> NextVelocity(k, hd, e, jit, frc)]
        c == [k \in BufIdx |-> current[k] + v[k]]
        calm == ~isBurst(hd) /\ ~fistGate(hd)
    IN  /\ mounted
        /\ rotation' = Rotate(rotation, hd)
        /\ material' = Flair(material, hd, color)
        /\ velocities' = v
        /\ current' = c
        /\ positions' = c
        /\ time' = time + 1
        /\ frame' = [hand |-> hd, isBurst |-> isBurst(hd), fist |-> fistGate(hd),
                     expansionFactor |-> e, returnForce |-> returnForce(hd),
                     breathing |-> ~(hd.isTracking /\ ~isBurst(hd))]
        /\ calmRun' = IF ~calm THEN 0
                      ELSE IF calmRun > 0 /\ frame.expansionFactor = e
                              THEN calmRun + 1 ELSE 1
        /\ UNCHANGED <<appVars, targets, mounted, hcVars, sampled, published,
                       detected>>

\* the random draws one frame makes: jitter if the fist force is on, a
\* burst force if the burst is on
Frame ==
    \E jit \in (IF fistGate(handData) THEN JitterOutcomes ELSE {NoJitter}) :
       \E frc \in (IF isBurst(handData) THEN BurstOutcomes ELSE {NoForce}) :
          TickStep(jit, frc)

Tick == time < MaxTime /\ Frame

\* ---------------------------------------------------------- HandController
\* Hands as the landmarker reports them: the landmarks the logic reads
\* (0 wrist, 8 index tip, 12 middle tip, 16 ring tip, 20 pinky tip), in
\* thousandths of the normalized image; only the index tip's z is read.
OpenLeft ==
    [wrist |-> <<200, 800>>, index |-> <<200, 400, 0>>, middle |-> <<220, 380>>,
     ring |-> <<240, 420>>, pinky |-> <<260, 480>>]
OpenRight ==
    [wrist |-> <<900, 800>>, index |-> <<900, 400, 0>>, middle |-> <<880, 380>>,
     ring |-> <<860, 420>>, pinky |-> <<840, 480>>]
OpenNear ==
    [wrist |-> <<400, 800>>, index |-> <<400, 400, 0>>, middle |-> <<420, 380>>,
     ring |-> <<440, 420>>, pinky |-> <<460, 480>>]
OpenTouch ==
    [wrist |-> <<230, 800>>, index |-> <<230, 400, 0>>, middle |-> <<250, 380>>,
     ring |-> <<270, 420>>, pinky |-> <<290, 480>>]
FistMid ==
    [wrist |-> <<500, 600>>, index |-> <<520, 500, 0>>, middle |-> <<510, 500>>,
     ring |-> <<500, 510>>, pinky |-> <<490, 520>>]

\* results.landmarks the detector can return for a video frame
Landmarks ==
    { << >>, <<FistMid>>, <<OpenLeft, OpenTouch>>, <<OpenLeft, OpenNear>>,
      <<OpenLeft, OpenRight>> }

openThreshold == 300
distOffset == 50
distRange == 600

\* getDist(p1, p2): distance in the image plane
getDist(p1, p2) ==
    Sqrt((p1[1] - p2[1]) * (p1[1] - p2[1]) + (p1[2] - p2[2]) * (p1[2] - p2[2]))

\* fingers of one hand whose tip is far from the wrist
OpenFingers(hand) ==
    Cardinality({f \in {"index", "middle", "ring", "pinky"} :
                    getDist(hand[f], hand.wrist) > openThreshold})

RECURSIVE SumOver(_, _)
SumOver(F(_), hands) ==
    IF hands = << >> THEN 0 ELSE F(Head(hands)) + SumOver(F, Tail(hands))

\* renderLoop's "logic calculation": the HandData of one detection
Gesture(landmarks) ==
    IF Len(landmarks) = 0 THEN DefaultHandData
    ELSE
      LET sx(h) == h.wrist[1] + h.index[1]
          sy(h) == h.wrist[2] + h.index[2]
          pointCount == 2 * Len(landmarks)
          rawX == RoundDiv(SumOver(sx, landmarks), pointCount)
          rawY == RoundDiv(SumOver(sy, landmarks), pointCount)
          cx == Unit - rawX
          cy == rawY
          h1 == landmarks[1].index
          h2 == landmarks[2].index
          rawDist == Sqrt((h1[1] - h2[1]) * (h1[1] - h2[1])
                          + (h1[2] - h2[2]) * (h1[2] - h2[2])
                          + (h1[3] - h2[3]) * (h1[3] - h2[3]))
          dist == IF Len(landmarks) = 2
                     THEN Min(Max(RoundDiv((rawDist - distOffset) * Unit, distRange), 0),
                              Unit)
                     ELSE 500
      IN  [isTracking |-> TRUE,
           distance |-> dist,
           isFist |-> SumOver(OpenFingers, landmarks) = 0,
           center |-> <<cx, cy>>,
           rotation |-> <<(cy - 500) * 2, (cx - 500) * 3>>]

\* the snapshots renderLoop can compute from a detection
Gestures == { Gesture(landmarks) : landmarks \in Landmarks }

\* the detections renderLoop can see: the number of hands and the snapshot
\* it computes from them
Detections ==
    { [hands |-> Len(landmarks), data |-> Gesture(landmarks)] :
        landmarks \in Landmarks }

\* one pass of renderLoop over a new video frame: detect, compute, onUpdate
Detect ==
    /\ lastVideoTime' = videoTime
    /\ \E d \in Detections :
          /\ detected' = d.hands
          /\ handData' = handleHandUpdate(d.data)
          /\ published' = <<d.data>>

\* the camera stream delivers its first frame: 'loadeddata' -> predict(),
\* which runs renderLoop once at once
StartCamera ==
    /\ mounted
    /\ camera = "off"
    /\ camera' = "live"
    /\ Detect
    /\ UNCHANGED <<targetShape, color, bufVars, psVars, videoTime, frame,
                   sampled, calmRun>>

\* the video advances to its next frame
VideoFrame ==
    /\ camera = "live"
    /\ videoTime < MaxVideoTime
    /\ videoTime' = videoTime + 1
    /\ UNCHANGED <<appVars, bufVars, psVars, camera, lastVideoTime, obsVars>>

\* the stream ends (device lost): video.currentTime stops advancing
CameraLost ==
    /\ camera = "live"
    /\ camera' = "lost"
    /\ UNCHANGED <<appVars, bufVars, psVars, videoTime, lastVideoTime, obsVars>>

\* renderLoop on an animation frame, when the video has a new frame
RenderLoop ==
    /\ camera # "off"
    /\ videoTime # lastVideoTime
    /\ Detect
    /\ UNCHANGED <<targetShape, color, bufVars, psVars, camera, videoTime,
                   frame, sampled, calmRun>>

\* ----------------------------------------------------------- specifications
\* the application: the shape control, the camera and the render loop
Next ==
    \/ MountEffects
    \/ \E val \in ShapeChoices : SetTargetShape(val)
    \/ StartCamera
    \/ VideoFrame
    \/ CameraLost
    \/ RenderLoop
    \/ Tick

Spec == Init /\ [][Next]_vars

\* the particle system alone, driven by an arbitrary owner of its props:
\* any shape value, any colour, any HandData in the handData ref
SetHandData(data) ==
    /\ mounted
    /\ data # handData
    /\ handData' = handleHandUpdate(data)
    /\ published' = <<data>>
    /\ UNCHANGED <<targetShape, color, bufVars, psVars, hcVars, frame, sampled,
                   detected, calmRun>>

NextCore ==
    \/ MountEffects
    \/ \E val \in PropShapes : SetTargetShape(val)
    \/ \E data \in HandDataValues : SetHandData(data)
    \/ Tick

SpecCore == Init /\ [][NextCore]_vars

\* the visual state: the colour control, gestures with and without burst,
\* and the render loop
VisualHandData == { HandValue(TRUE, 900, FALSE), HandValue(TRUE, 500, FALSE) }

NextVisual ==
    \/ MountEffects
    \/ \E val \in BaseColors : SetColor(val)
    \/ \E data \in VisualHandData : SetHandData(data)
    \/ Tick

SpecVisual == Init /\ [][NextVisual]_vars

\* the return to the shape: the shape and the gesture change only before
\* frame MaxDisturb; from then on a calm gesture is held and frames follow
ReturnLimit == MaxDisturb + ConvergeTicks + 10

Disturb ==
    /\ time < MaxDisturb
    /\ \/ \E val \in ShapeChoices : SetTargetShape(val)
       \/ \E data \in DisturbHandData : SetHandData(data)

Calm ==
    /\ handData \notin CalmHandData
    /\ \E data \in CalmHandData : SetHandData(data)

ReturnTick ==
    /\ time < ReturnLimit
    /\ time < MaxDisturb \/ handData \in CalmHandData
    /\ Frame

NextReturn ==
    \/ MountEffects
    \/ Disturb
    \/ Calm
    \/ ReturnTick

SpecReturn == Init /\ [][NextReturn]_vars

\* ------------------------------------------------------------------ claims
\* the last frame had the burst on: return force 0 and the white flash
BurstActive ==
    /\ frame.isBurst
    /\ frame.returnForce = 0
    /\ material.opacity = burstOpacity
    /\ material.size = burstSize

\* C1: at every frame the burst is active exactly when the snapshot read
\* has isTracking = true and distance > 0.85; a snapshot with
\* isTracking = false and distance > 0.85 produces no burst.
C1_BurstRequiresTracking ==
    time > 0 =>
        (BurstActive <=> (frame.hand.isTracking /\ frame.hand.distance > 850))

\* C2: at every frame the fist force is applied exactly when the snapshot
\* read has isTracking = true and isFist = true; a snapshot with
\* isTracking = false and isFist = true applies no fist force.
C2_FistRequiresTracking ==
    time > 0 => (frame.fist <=> (frame.hand.isTracking /\ frame.hand.isFist))

\* the gesture source has lost its input and publishes nothing further
SourceLost == camera = "lost" /\ videoTime = lastVideoTime

\* the last frame treated the gesture as not tracking: idle behaviour only
IdleFrame ==
    /\ ~frame.hand.isTracking
    /\ ~frame.fist
    /\ ~frame.isBurst
    /\ frame.breathing
    /\ frame.returnForce = 30

\* C3: once the gesture source has lost its input, every frame that follows
\* treats the gesture as not tracking, whatever the last snapshot was.
C3_LostSourceIsIdle ==
    [][(SourceLost /\ time' = time + 1) => IdleFrame']_vars

\* C4: after the cold start a shape change overwrites only the target
\* buffer: position and velocity are left as they were.
C4_ShapeChangeKeepsPosition ==
    [][(mounted /\ targetShape' # targetShape)
          => (current' = current /\ velocities' = velocities)]_vars

\* C5: the first shape assignment after construction leaves position equal
\* to target for every particle, and every velocity zero.
C5_ColdStartSnap ==
    [][(~mounted /\ mounted')
          => /\ \A k \in BufIdx : current'[k] = targets'[k]
             /\ \A k \in BufIdx : velocities'[k] = 0
             /\ targets' \in generateShapePositions(targetShape')]_vars

C5_Witness ==
    /\ mounted
    /\ time = 0
    /\ current = targets
    /\ current # ZeroBuffer
    /\ velocities = ZeroBuffer

\* C6: a shape kind outside the enumerated set is refused and leaves the
\* target buffer unchanged; no point set is produced or stored for it.
C6_UnknownKindRefused ==
    [][(mounted /\ targetShape' # targetShape /\ targetShape' \notin ShapeType)
          => (targets' = targets /\ sampled' = sampled)]_vars

\* the snapshot latestGesture() stands for: the last one published, the
\* default before any
LatestGesture == IF published = << >> THEN DefaultHandData ELSE published[1]

\* C7: every frame reads all its gesture fields from one whole snapshot,
\* the most recently published one, or the default not-tracking snapshot
\* if none was published, and then shows the idle behaviour only.
C7_LastWriteWins ==
    [][time' = time + 1
          => /\ frame'.hand = LatestGesture
             /\ published = << >>
                  => /\ frame'.hand.isTracking = FALSE
                     /\ frame'.hand.distance = 500
                     /\ frame'.hand.isFist = FALSE
                     /\ IdleFrame']_vars

C7_Witness ==
    /\ time > 0
    /\ published # << >>
    /\ frame.hand = published[1]
    /\ frame.hand.isTracking
    /\ frame.hand # DefaultHandData

\* C8: the target buffer a frame reads is, index by index, the output of
\* one sampler call, the one of the most recent shape assignment: never a
\* mixture of two shapes, never reordered.
C8_TargetIsOneSample ==
    mounted => /\ \A k \in BufIdx : targets[k] = sampled[k]
               /\ sampled \in generateShapePositions(targetShape)

C8_Witness ==
    /\ time > 0
    /\ targetShape = CLOUD
    /\ targets = sampled
    /\ positions # ZeroBuffer
    /\ positions # targets

\* squared distance of particle i at buffer cur from its target scaled by
\* e, each axis taken in thousandths
Dist2(cur, e, i) ==
    LET d(ax) == RoundDiv(cur[I3(i, ax)] - Scale(targets[I3(i, ax)], e), Unit)
    IN  d(0) * d(0) + d(1) * d(1) + d(2) * d(2)

\* C9 as stated: without burst and fist force and with a fixed scaled
\* target, no frame moves a particle farther from its scaled target.
C9_MonotoneReturn ==
    [][(time' = time + 1 /\ calmRun' >= 2)
          => \A i \in Particles :
                Dist2(current', frame'.expansionFactor, i)
                   <= Dist2(current, frame'.expansionFactor, i)]_vars

\* C9 amended: without burst and fist force and with a fixed scaled target,
\* after ConvergeTicks frames every coordinate of every particle is and
\* stays within Epsilon of its scaled target.
C9_ReturnConverges ==
    calmRun >= ConvergeTicks =>
        \A k \in BufIdx :
            Abs(current[k] - Scale(targets[k], frame.expansionFactor)) <= Epsilon

C9_Witness ==
    /\ calmRun >= ConvergeTicks
    /\ targetShape = CLOUD
    /\ frame.hand.distance = 0
    /\ \A k \in BufIdx : Abs(current[k] - Scale(targets[k], 500)) <= Epsilon

\* new is old moved toward goal by linear interpolation with factor 0.1,
\* up to the rounding of the stored value
Eased(old, new, goal) == 2 * Abs(Unit * new - (900 * old + 100 * goal)) <= Unit

\* a frame without burst eases colour, opacity and size toward the base
\* colour, 0.8 and 0.15
EasingFrame ==
    (time' = time + 1 /\ ~frame'.isBurst)
       => /\ \A c \in 1..3 : Eased(material.color[c], material'.color[c], Color(color)[c])
          /\ Eased(material.opacity, material'.opacity, 800)
          /\ Eased(material.size, material'.size, 150)

\* C10 as stated: outside a burst colour, opacity and size only ever ease
\* toward their steady values, and a change of the base colour does not
\* change the displayed colour.
C10_NeverSnaps ==
    [][EasingFrame /\ (color' # color => material' = material)]_vars

\* C10 amended: a frame without burst eases colour, opacity and size toward
\* the base colour, 0.8 and 0.15 with factor 0.1; a change of the base
\* colour sets the displayed colour to the new base colour at once and
\* leaves opacity and size alone.
C10_EasesAndSetsColor ==
    [][/\ EasingFrame
       /\ color' # color
            => /\ material'.color = Color(color')
               /\ material'.opacity = material.opacity
               /\ material'.size = material.size]_vars

C10_Witness ==
    /\ time > 1
    /\ ~frame.isBurst
    /\ material.opacity = 890
    /\ material.color # White
    /\ material.color # Color(color)

\* the reference step for one coordinate of one particle, from its own
\* position p, velocity v and target tg alone: the scaled target t = tg * e,
\* the return term (t - p) * k, the fist term -0.05 * p + j when the fist
\* force is on, the burst term p * f when the burst is on
ReferenceAccel(p, tg, e, k, fistOn, burstOn, j, f) ==
    Scale(Scale(tg, e) - p, k)
      + (IF fistOn THEN j - Scale(p, 50) ELSE 0)
      + (IF burstOn THEN Scale(p, f) ELSE 0)

\* v' = (v + a) * 0.90
ReferenceVelocity(v, a) == Scale(v + a, 900)

\* the per-frame factors of the reference step, from the snapshot hd the
\* frame read and the burst decision it took, at clock t
ReferenceK(burstOn) == IF burstOn THEN 0 ELSE 30
ReferenceE(hd, burstOn, t) ==
    IF hd.isTracking /\ ~burstOn
       THEN 500 + RoundDiv(hd.distance * 1500, Unit)
       ELSE breathing(t)

\* the draws are in the ranges of the reference step: each axis of the
\* jitter in [-0.05, 0.05], the burst factor in [0.02, 0.03]
DrawsInRange ==
    /\ \A j \in JitterDraws : \A ax \in 1..3 : j[ax] >= -50000 /\ j[ax] <= 50000
    /\ \A f \in BurstDraws : f >= 20 /\ f <= 30

\* C11: one frame equals the reference step for every particle i: with
\* k = 0 if burst else 0.03, e = 0.5 + 1.5 * distance if tracking and not
\* burst else the breathing factor, a = (target * e - p) * k, plus
\* (-0.05 * p + jitter) if the fist force is on, plus p * f if burst; then
\* v' = (v + a) * 0.90 and p' = p + v' with the damped v'; the render buffer
\* holds p'; and the result for particle i is a function of that particle's
\* own position, velocity and target and of its own draws only.
C11_TickIsReferenceStep ==
    [][time' = time + 1
          => /\ DrawsInRange
             /\ \A i \in Particles :
                  \E j \in JitterDraws : \E f \in BurstDraws :
                     \A ax \in 0..2 :
                        LET k == I3(i, ax)
                            a == ReferenceAccel(current[k], targets[k],
                                     ReferenceE(frame'.hand, frame'.isBurst, time),
                                     ReferenceK(frame'.isBurst),
                                     frame'.fist, frame'.isBurst, j[ax + 1], f)
                        IN  /\ frame'.hand = handData
                            /\ velocities'[k] = ReferenceVelocity(velocities[k], a)
                            /\ current'[k] = current[k] + velocities'[k]
                            /\ positions'[k] = current'[k]]_vars

\* a frame with the fist force and the return force both present has moved
\* the particles, and the render buffer shows the new positions
C11_Witness ==
    /\ time > 0
    /\ frame.fist
    /\ ~frame.isBurst
    /\ frame.returnForce = 30
    /\ velocities # ZeroBuffer
    /\ positions = current
    /\ positions # targets

\* C12: every snapshot the hand controller publishes has distance in
\* [0, 1]; distance = 0.5 unless exactly two hands were detected; and a
\* snapshot that is not tracking has distance = 0.5, isFist = false,
\* center = (0.5, 0.5) and rotation = (0, 0), so that it is neither a fist
\* nor a burst (distance > 0.85).
C12_PublishedSnapshotValid ==
    published # << >> =>
        LET data == published[1]
        IN  /\ data \in Gestures
            /\ data.distance >= 0 /\ data.distance <= Unit
            /\ detected # 2 => data.distance = 500
            /\ data.isTracking <=> detected > 0
            /\ ~data.isTracking
                 => /\ data.distance = 500
                    /\ data.isFist = FALSE
                    /\ data.center = <<500, 500>>
                    /\ data.rotation = <<0, 0>>
            /\ ~(~data.isTracking /\ (data.isFist \/ data.distance > 850))

\* after a later video frame, two hands whose index tips touch were
\* detected and the snapshot published has the distance clamped to 0
C12_Witness ==
    /\ lastVideoTime > 0
    /\ published # << >>
    /\ detected = 2
    /\ published[1].isTracking
    /\ published[1].distance = 0
    /\ handData = published[1]
====
